---- MODULE Spec2Model ----
(***************************************************************************)
(* Model of PayloadHandlerBase                                             *)
(* (pyanaconda/modules/payload/base/handler_base.py).                      *)
(*                                                                         *)
(* Python lists are objects reached through references: the heap maps a    *)
(* list reference to the list's contents, the handler's _sources field is  *)
(* a reference, and the caller holds references too.  set_sources stores   *)
(* the reference it is given and the sources property returns the stored   *)
(* reference, so a list can be shared by the handler and its caller.       *)
(***************************************************************************)
EXTENDS Integers, Sequences, FiniteSets, TLC

\* ---------------------------------------------------------------- bounds
MaxLen == 2          \* longest list the caller builds
MaxEmits == 3        \* sources_changed emissions explored

\* ------------------------------------------------------------- universe
Sources == {"s1", "s2"}
SourceTypes == {"A", "B"}
Lists == {1, 2}

\* source.type, read at handler_base.py:79
SourceType(s) == IF s = "s1" THEN "A" ELSE "B"

VARIABLES
    _sources,                 \* self._sources: reference to a list
    heap,                     \* contents of every list object
    held,                     \* list references the caller holds
    ready,                    \* sources whose is_ready() is true
    supported_source_types,   \* the concrete handler's supported types
    emitted,                  \* number of sources_changed.emit() calls
    call,                     \* the operation just performed and its outcome
    task,                     \* the task that sets sources up, and its list
    refused                   \* history: a call has raised SourceSetupError

vars == <<_sources, heap, held, ready, supported_source_types, emitted, call,
          task, refused>>

Idle == [op |-> "none", result |-> "none"]

NoTask == [state |-> "none"]

\* PayloadHandlerBase.__init__: a new empty list nobody else holds, a new signal.
\* The caller starts with one empty list of its own.
Init ==
    /\ _sources = 1
    /\ heap = [l \in Lists |-> << >>]
    /\ held = {2}
    /\ ready = {}
    /\ supported_source_types \in SUBSET SourceTypes
    /\ emitted = 0
    /\ call = Idle
    /\ task = NoTask
    /\ refused = FALSE

\* The sources property: the list self._sources refers to.
sources == heap[_sources]

\* for source in sources: if source.type not in self.supported_source_types: raise
\* Index of the element at which the loop raises, 0 when the loop completes.
RECURSIVE FirstUnsupportedFrom(_, _)
FirstUnsupportedFrom(seq, i) ==
    IF i > Len(seq) THEN 0
    ELSE IF SourceType(seq[i]) \notin supported_source_types THEN i
    ELSE FirstUnsupportedFrom(seq, i + 1)

\* Variant: only the first element is examined.
FirstUnsupportedHeadOnly(seq) ==
    IF seq # << >> /\ SourceType(seq[1]) \notin supported_source_types THEN 1 ELSE 0

\* Variant: the loop goes on and the last unsupported element is reported.
FirstUnsupportedLast(seq) ==
    IF \E i \in DOMAIN seq : SourceType(seq[i]) \notin supported_source_types
    THEN CHOOSE i \in DOMAIN seq :
            /\ SourceType(seq[i]) \notin supported_source_types
            /\ \A j \in DOMAIN seq :
                   SourceType(seq[j]) \notin supported_source_types => j <= i
    ELSE 0

FirstUnsupported(seq) == FirstUnsupportedFrom(seq, 1)

\* any(source.is_ready() for source in self.sources)
RECURSIVE AnyReadyFrom(_, _)
AnyReadyFrom(seq, i) ==
    IF i > Len(seq) THEN FALSE
    ELSE IF seq[i] \in ready THEN TRUE
    ELSE AnyReadyFrom(seq, i + 1)

\* Variant: only the first element is asked.
AnyReadyHeadOnly(seq) == seq # << >> /\ seq[1] \in ready

\* Variant: all() in place of any().
AnyReadyAll(seq) == \A i \in DOMAIN seq : seq[i] \in ready

AnyReady(seq) == AnyReadyFrom(seq, 1)

\* Variant: self.sources is not None.
has_source_NotNone == _sources \in Lists

\* bool(self.sources)
has_source == Len(sources) > 0

BoolStr(b) == IF b THEN "True" ELSE "False"

\* What an observer connected to sources_changed reads through sources and
\* has_source() when the handler's list is l.
Observe(l) == [sources |-> heap[l], has_source |-> Len(heap[l]) > 0]

\* set_sources returned: the observers ran with the arguments of emit().
Returned(l, seen) ==
    [op |-> "set_sources", arg |-> l, result |-> "ok", observed |-> seen,
     args |-> << >>]

\* raise IncompatibleSourceError("Source type {} is not supported by this
\* handler.".format(source.type)): types is the set of types the message names.
IncompatibleSourceError(l) ==
    [op |-> "set_sources", arg |-> l, result |-> "IncompatibleSourceError",
     types |-> {SourceType(heap[l][FirstUnsupported(heap[l])])}]

\* raise SourceSetupError("Can't change list of sources ...")
SourceSetupError(l) ==
    [op |-> "set_sources", arg |-> l, result |-> "SourceSetupError"]

\* Variant: the readiness of the held sources is checked before the types.
set_sources_ReadyFirst(l) ==
    /\ emitted < MaxEmits
    /\ IF AnyReady(sources)
       THEN /\ call' = SourceSetupError(l)
            /\ refused' = TRUE
            /\ UNCHANGED <<_sources, emitted>>
       ELSE IF FirstUnsupported(heap[l]) # 0
       THEN /\ call' = IncompatibleSourceError(l)
            /\ UNCHANGED <<_sources, emitted, refused>>
       ELSE /\ _sources' = l
            /\ emitted' = emitted + 1
            /\ call' = Returned(l, Observe(l))
            /\ UNCHANGED refused
    /\ UNCHANGED <<heap, held, ready, supported_source_types, task>>

\* Variant: the list is replaced before the readiness check.
set_sources_CommitEarly(l) ==
    /\ emitted < MaxEmits
    /\ IF FirstUnsupported(heap[l]) # 0
       THEN /\ call' = IncompatibleSourceError(l)
            /\ UNCHANGED <<_sources, emitted, refused>>
       ELSE IF AnyReady(sources)
       THEN /\ _sources' = l
            /\ call' = SourceSetupError(l)
            /\ refused' = TRUE
            /\ UNCHANGED emitted
       ELSE /\ _sources' = l
            /\ emitted' = emitted + 1
            /\ call' = Returned(l, Observe(l))
            /\ UNCHANGED refused
    /\ UNCHANGED <<heap, held, ready, supported_source_types, task>>

\* Variant: the signal is emitted only when the list object changes.
set_sources_EmitOnChange(l) ==
    /\ emitted < MaxEmits
    /\ IF FirstUnsupported(heap[l]) # 0
       THEN /\ call' = IncompatibleSourceError(l)
            /\ UNCHANGED <<_sources, emitted, refused>>
       ELSE IF AnyReady(sources)
       THEN /\ call' = SourceSetupError(l)
            /\ refused' = TRUE
            /\ UNCHANGED <<_sources, emitted>>
       ELSE /\ _sources' = l
            /\ emitted' = IF l = _sources THEN emitted ELSE emitted + 1
            /\ call' = Returned(l, Observe(l))
            /\ UNCHANGED refused
    /\ UNCHANGED <<heap, held, ready, supported_source_types, task>>

\* Variant: the call is also refused while a created task has not run.
set_sources_RefuseWhilePending(l) ==
    /\ emitted < MaxEmits
    /\ IF FirstUnsupported(heap[l]) # 0
       THEN /\ call' = IncompatibleSourceError(l)
            /\ UNCHANGED <<_sources, emitted, refused>>
       ELSE IF AnyReady(sources) \/ task.state = "created"
       THEN /\ call' = SourceSetupError(l)
            /\ refused' = TRUE
            /\ UNCHANGED <<_sources, emitted>>
       ELSE /\ _sources' = l
            /\ emitted' = emitted + 1
            /\ call' = Returned(l, Observe(l))
            /\ UNCHANGED refused
    /\ UNCHANGED <<heap, held, ready, supported_source_types, task>>

\* Variant: the signal is emitted before the list is replaced.
set_sources_NotifyFirst(l) ==
    /\ emitted < MaxEmits
    /\ IF FirstUnsupported(heap[l]) # 0
       THEN /\ call' = IncompatibleSourceError(l)
            /\ UNCHANGED <<_sources, emitted, refused>>
       ELSE IF AnyReady(sources)
       THEN /\ call' = SourceSetupError(l)
            /\ refused' = TRUE
            /\ UNCHANGED <<_sources, emitted>>
       ELSE /\ _sources' = l
            /\ emitted' = emitted + 1
            /\ call' = Returned(l, Observe(_sources))
            /\ UNCHANGED refused
    /\ UNCHANGED <<heap, held, ready, supported_source_types, task>>

\* Variant: the readiness of the candidates is checked as well.
set_sources_CheckCandidates(l) ==
    /\ emitted < MaxEmits
    /\ IF FirstUnsupported(heap[l]) # 0
       THEN /\ call' = IncompatibleSourceError(l)
            /\ UNCHANGED <<_sources, emitted, refused>>
       ELSE IF AnyReady(sources) \/ AnyReady(heap[l])
       THEN /\ call' = SourceSetupError(l)
            /\ refused' = TRUE
            /\ UNCHANGED <<_sources, emitted>>
       ELSE /\ _sources' = l
            /\ emitted' = emitted + 1
            /\ call' = Returned(l, Observe(l))
            /\ UNCHANGED refused
    /\ UNCHANGED <<heap, held, ready, supported_source_types, task>>

\* Variant: once a call was refused, every later call is refused.
set_sources_Sticky(l) ==
    /\ emitted < MaxEmits
    /\ IF FirstUnsupported(heap[l]) # 0
       THEN /\ call' = IncompatibleSourceError(l)
            /\ UNCHANGED <<_sources, emitted, refused>>
       ELSE IF AnyReady(sources) \/ refused
       THEN /\ call' = SourceSetupError(l)
            /\ refused' = TRUE
            /\ UNCHANGED <<_sources, emitted>>
       ELSE /\ _sources' = l
            /\ emitted' = emitted + 1
            /\ call' = Returned(l, Observe(l))
            /\ UNCHANGED refused
    /\ UNCHANGED <<heap, held, ready, supported_source_types, task>>

\* set_sources(l): the caller passes a list it holds.
set_sources(l) ==
    /\ emitted < MaxEmits
    /\ IF FirstUnsupported(heap[l]) # 0
       THEN /\ call' = IncompatibleSourceError(l)
            /\ UNCHANGED <<_sources, emitted, refused>>
       ELSE IF AnyReady(sources)
       THEN /\ call' = SourceSetupError(l)
            /\ refused' = TRUE
            /\ UNCHANGED <<_sources, emitted>>
       ELSE /\ _sources' = l
            /\ emitted' = emitted + 1
            /\ call' = Returned(l, Observe(l))
            /\ UNCHANGED refused
    /\ UNCHANGED <<heap, held, ready, supported_source_types, task>>

SetSources == \E l \in held : set_sources(l)

\* has_source(): returns bool(self.sources).
HasSource ==
    /\ call' = [op |-> "has_source", result |-> BoolStr(has_source)]
    /\ UNCHANGED <<_sources, heap, held, ready, supported_source_types, emitted, task, refused>>

\* The caller reads the sources property and keeps what it returns.
GetSources ==
    /\ held' = held \cup {_sources}
    /\ call' = [op |-> "sources", arg |-> _sources, result |-> "none"]
    /\ UNCHANGED <<_sources, heap, ready, supported_source_types, emitted, task, refused>>

\* The lists the task refers to.
TaskLists == IF task.state = "none" THEN {} ELSE {task.list}

\* The caller creates a new empty list (a list object nobody refers to).
NewList ==
    \E l \in Lists \ (held \cup {_sources} \cup TaskLists) :
        /\ heap' = [heap EXCEPT ![l] = << >>]
        /\ held' = held \cup {l}
        /\ call' = [op |-> "list", arg |-> l, result |-> "none"]
        /\ UNCHANGED <<_sources, ready, supported_source_types, emitted, task, refused>>

\* list.append(s) and list.pop() on a list object.
append(l, s) ==
    /\ Len(heap[l]) < MaxLen
    /\ heap' = [heap EXCEPT ![l] = Append(@, s)]
    /\ call' = [op |-> "append", arg |-> l, result |-> "none"]
    /\ UNCHANGED <<_sources, held, ready, supported_source_types, emitted, task, refused>>

pop(l) ==
    /\ Len(heap[l]) > 0
    /\ heap' = [heap EXCEPT ![l] = SubSeq(@, 1, Len(@) - 1)]
    /\ call' = [op |-> "pop", arg |-> l, result |-> "none"]
    /\ UNCHANGED <<_sources, held, ready, supported_source_types, emitted, task, refused>>

\* The caller builds a candidate in a list the handler does not refer to.
BuildAppend == \E l \in held \ {_sources} : \E s \in Sources : append(l, s)
BuildPop == \E l \in held \ {_sources} : pop(l)

\* The caller changes a list the handler refers to: the list it passed to
\* set_sources earlier, or the list it got from the sources property.
AliasAppend == \E l \in held \cap {_sources} : \E s \in Sources : append(l, s)
AliasPop == \E l \in held \cap {_sources} : pop(l)

\* External machinery sets a source up or tears it down.
SetUp ==
    \E s \in Sources \ ready :
        /\ ready' = ready \cup {s}
        /\ call' = [op |-> "set_up", source |-> s, result |-> "none"]
        /\ UNCHANGED <<_sources, heap, held, supported_source_types, emitted, task, refused>>

TearDown ==
    \E s \in ready :
        /\ ready' = ready \ {s}
        /\ call' = [op |-> "tear_down", source |-> s, result |-> "none"]
        /\ UNCHANGED <<_sources, heap, held, supported_source_types, emitted, task, refused>>

Range(seq) == {seq[i] : i \in DOMAIN seq}

\* SetupSourcesWithTask(): a task is created with the handler's current list.
CreateTask ==
    /\ task.state = "none"
    /\ task' = [state |-> "created", list |-> _sources]
    /\ call' = [op |-> "create_task", arg |-> _sources, result |-> "none"]
    /\ UNCHANGED <<_sources, heap, held, ready, supported_source_types, emitted, refused>>

\* The task runs: it sets up the sources of the list it was created with,
\* whether or not that is still the handler's list.
RunTask ==
    /\ task.state = "created"
    /\ ready' = ready \cup Range(heap[task.list])
    /\ task' = [state |-> "ran", list |-> task.list, stale |-> task.list # _sources,
                started |-> Range(heap[task.list]) \ ready]
    /\ call' = [op |-> "run_task", arg |-> task.list, result |-> "none"]
    /\ UNCHANGED <<_sources, heap, held, supported_source_types, emitted, refused>>

\* The finished task is dropped.
DropTask ==
    /\ task.state = "ran"
    /\ task' = NoTask
    /\ call' = [op |-> "drop_task", result |-> "none"]
    /\ UNCHANGED <<_sources, heap, held, ready, supported_source_types, emitted, refused>>

\* Callers that only use the handler's operations and never change a list
\* the handler refers to.
NextAPI ==
    \/ SetSources
    \/ HasSource
    \/ GetSources
    \/ NewList
    \/ BuildAppend
    \/ BuildPop
    \/ SetUp
    \/ TearDown

SpecAPI == Init /\ [][NextAPI]_vars

\* Any caller.
Next ==
    \/ SetSources
    \/ HasSource
    \/ GetSources
    \/ NewList
    \/ BuildAppend
    \/ BuildPop
    \/ AliasAppend
    \/ AliasPop
    \/ SetUp
    \/ TearDown

Spec == Init /\ [][Next]_vars

\* The task that sets the sources up, next to a caller that never changes a
\* list the handler refers to.  What the task does to the readiness of
\* sources SetUp can do as well; the task is kept out of Next and NextAPI
\* and studied here.
NextTask ==
    \/ NextAPI
    \/ CreateTask
    \/ RunTask
    \/ DropTask

SpecTask == Init /\ [][NextTask]_vars

TypeOK ==
    /\ _sources \in Lists
    /\ held \subseteq Lists
    /\ ready \subseteq Sources
    /\ supported_source_types \subseteq SourceTypes
    /\ emitted \in 0..MaxEmits
    /\ refused \in BOOLEAN
    /\ task.state \in {"none", "created", "ran"}
    /\ TaskLists \subseteq Lists
    /\ \A l \in Lists : Len(heap[l]) <= MaxLen

\* ------------------------------------------------------------------------
\* Vocabulary of the properties, stated independently of the operators
\* the actions use.
\* ------------------------------------------------------------------------
ContainsUnsupported(seq) ==
    \E i \in DOMAIN seq : SourceType(seq[i]) \notin supported_source_types

SomeReady(seq) == \E i \in DOMAIN seq : seq[i] \in ready

\* The step just taken is a set_sources call (call' describes it).
IsSetSourcesStep == call'.op = "set_sources"

\* The candidate passed in the step just taken, as it was when passed.
Candidate == heap[call'.arg]

\* The handler's list is the same object with the same contents.
SourcesUntouched == _sources' = _sources /\ heap'[_sources'] = heap[_sources]

\* C1 (as claimed): whenever a currently held source is ready, every
\* set_sources call, whatever its candidate, fails with SourceSetupError
\* and leaves sources unchanged.
C1_SetupGuardAnyCandidate ==
    [][ (IsSetSourcesStep /\ SomeReady(sources))
            => (call'.result = "SourceSetupError" /\ SourcesUntouched) ]_vars

\* C1 (amended): whenever a currently held source is ready, every
\* set_sources call fails and leaves sources unchanged; the failure is
\* SourceSetupError when every candidate type is supported and
\* IncompatibleSourceError when the candidate has an unsupported type.
C1_SetupGuard ==
    [][ (IsSetSourcesStep /\ SomeReady(sources))
            => /\ SourcesUntouched
               /\ call'.result = IF ContainsUnsupported(Candidate)
                                 THEN "IncompatibleSourceError"
                                 ELSE "SourceSetupError" ]_vars

\* A call refused by the setup guard: a held source is ready, the candidate
\* is all of supported types.
C1_Witness ==
    /\ call.op = "set_sources"
    /\ call.result = "SourceSetupError"
    /\ SomeReady(sources)
    /\ ~ContainsUnsupported(heap[call.arg])

\* C2: every set_sources call whose candidate contains a source of an
\* unsupported type fails with IncompatibleSourceError and leaves sources
\* unchanged, in every reachable state.
C2_TypeGuard ==
    [][ (IsSetSourcesStep /\ ContainsUnsupported(Candidate))
            => (call'.result = "IncompatibleSourceError" /\ SourcesUntouched) ]_vars

\* A refused candidate whose first element is supported and whose second
\* is not, on a handler that holds sources.
C2_Witness ==
    /\ call.op = "set_sources"
    /\ call.result = "IncompatibleSourceError"
    /\ Len(heap[call.arg]) = 2
    /\ SourceType(heap[call.arg][1]) \in supported_source_types
    /\ SourceType(heap[call.arg][2]) \notin supported_source_types
    /\ sources # << >>

\* C3: when no held source is ready and every candidate type is supported,
\* set_sources succeeds, sources afterwards is the candidate (same
\* elements, same order) and sources_changed is emitted exactly once.
C3_SuccessPath ==
    [][ (IsSetSourcesStep /\ ~SomeReady(sources) /\ ~ContainsUnsupported(Candidate))
            => /\ call'.result = "ok"
               /\ heap'[_sources'] = Candidate
               /\ emitted' = emitted + 1 ]_vars

\* Scenario D: two different supported sources attached, in order.
C3_Witness ==
    /\ call.op = "set_sources"
    /\ call.result = "ok"
    /\ sources = <<"s2", "s1">>
    /\ emitted = 1

\* C4: after any sequence of set_sources calls and readiness changes,
\* every source in sources has a supported type.
C4_INV1 == ~ContainsUnsupported(sources)

\* A populated handler after a refused and an accepted replacement.
C4_Witness ==
    /\ Len(sources) = 2
    /\ supported_source_types = {"A"}
    /\ emitted >= 2
    /\ call.op = "set_sources"
    /\ call.result = "IncompatibleSourceError"

\* C5: the handler's source list changes only as the effect of a
\* successful set_sources call; a caller that changes the list it got from
\* sources, or the list it passed to set_sources, does not change what
\* sources returns.
C5_OnlySetSourcesChangesSources ==
    [][ (heap'[_sources'] # heap[_sources])
            => (call'.op = "set_sources" /\ call'.result = "ok") ]_vars

\* C6: a failed set_sources call leaves _sources, every list and the
\* emission count as they were, and in every step the emission count grows
\* by one if the step is a successful set_sources call and not at all
\* otherwise (so emissions and successful calls are equal in number).
C6_AllOrNothing ==
    [][ /\ (IsSetSourcesStep /\ call'.result # "ok")
               => UNCHANGED <<_sources, heap, emitted>>
        /\ emitted' = emitted + (IF IsSetSourcesStep /\ call'.result = "ok"
                                 THEN 1 ELSE 0) ]_vars

\* A failed call after a successful call whose candidate was the current
\* list itself, on a populated handler.
C6_Witness ==
    /\ call.op = "set_sources"
    /\ call.result = "SourceSetupError"
    /\ call.arg = _sources
    /\ emitted = 2
    /\ sources # << >>

\* C7: when the candidate contains an unsupported type and a held source
\* is ready, set_sources fails with IncompatibleSourceError, not
\* SourceSetupError: the types are checked first.
C7_ValidationOrder ==
    [][ (IsSetSourcesStep /\ ContainsUnsupported(Candidate) /\ SomeReady(sources))
            => call'.result = "IncompatibleSourceError" ]_vars

\* Both failure conditions held at the call and the type error was raised.
C7_Witness ==
    /\ call.op = "set_sources"
    /\ call.result = "IncompatibleSourceError"
    /\ ContainsUnsupported(heap[call.arg])
    /\ SomeReady(sources)

\* C8: a set_sources call replaces the list only if no source held before
\* the call was ready, and it is refused with SourceSetupError only if a
\* source held before the call was ready: the readiness of the candidates
\* plays no part.
C8_INV2 ==
    [][ IsSetSourcesStep
            => /\ call'.result = "ok" => ~SomeReady(sources)
               /\ call'.result = "SourceSetupError" => SomeReady(sources) ]_vars

\* An accepted replacement of a two-element list by a different list that
\* contains a ready source.
C8_Witness ==
    /\ call.op = "set_sources"
    /\ call.result = "ok"
    /\ emitted >= 2
    /\ SomeReady(sources)
    /\ \E l \in Lists \ {_sources} : Len(heap[l]) = 2

\* C9: set_sources of an empty list on a handler none of whose sources is
\* ready succeeds, whatever the supported types are, and has_source() is
\* false afterwards; the resulting state satisfies the same precondition,
\* so doing it again succeeds again.
C9_EmptyReplacement ==
    [][ (IsSetSourcesStep /\ Candidate = << >> /\ ~SomeReady(sources))
            => /\ call'.result = "ok"
               /\ ~has_source'
               /\ heap'[_sources'] = << >> ]_vars

\* The empty list accepted a second time by a handler that supports no
\* type at all, while some source is ready elsewhere.
C9_Witness ==
    /\ call.op = "set_sources"
    /\ call.result = "ok"
    /\ heap[call.arg] = << >>
    /\ supported_source_types = {}
    /\ emitted >= 2
    /\ ready # {}

\* C10: has_source() returns true exactly when sources is non-empty and
\* changes nothing, and the handler moves between Empty and Populated only
\* through successful set_sources calls.
C10_HasSource ==
    [][ /\ call'.op = "has_source"
               => /\ call'.result = BoolStr(heap[_sources] # << >>)
                  /\ UNCHANGED <<_sources, heap, emitted>>
        /\ ((heap'[_sources'] = << >>) # (heap[_sources] = << >>))
               => (call'.op = "set_sources" /\ call'.result = "ok") ]_vars

\* C11: set_sources is not serialized against the task: a call leaves the
\* task and the readiness of every source as they are, and a call with a
\* candidate of supported types at which no held source is ready succeeds,
\* also while a task created with an older list is waiting, and also when a
\* source outside the handler's list is ready.  It is refused with
\* SourceSetupError only when a held source is ready at the call.
C11_KnownRace ==
    [][ IsSetSourcesStep
            => /\ task' = task
               /\ ready' = ready
               /\ (~ContainsUnsupported(Candidate) /\ ~SomeReady(sources))
                      => call'.result = "ok"
               /\ call'.result = "SourceSetupError" => SomeReady(sources) ]_vars

\* The race has happened: the task was created with a list, set_sources
\* replaced the list, the task ran on the old list and set up a source that
\* is not in the handler's list, and a later set_sources call was accepted
\* while that source is ready.
C11_Witness ==
    /\ task.state = "ran"
    /\ task.stale
    /\ \E s \in task.started : s \in ready /\ s \notin Range(sources)
    /\ call.op = "set_sources"
    /\ call.result = "ok"

\* C12: on a successful set_sources the observers of sources_changed run
\* inside the call, once, without arguments, and what they read through
\* sources and has_source() is the new list, the candidate; a failed call
\* runs no observer.
C12_CommitBeforeNotify ==
    [][ IsSetSourcesStep
            => IF call'.result = "ok"
               THEN /\ call'.observed.sources = Candidate
                    /\ call'.observed.sources = heap'[_sources']
                    /\ call'.observed.has_source = (Candidate # << >>)
                    /\ call'.args = << >>
                    /\ emitted' = emitted + 1
               ELSE /\ "observed" \notin DOMAIN call'
                    /\ emitted' = emitted ]_vars

\* A populated list replaced an empty one, or an empty list a populated
\* one, and the observers saw the new one.
C12_Witness ==
    /\ call.op = "set_sources"
    /\ call.result = "ok"
    /\ emitted >= 2
    /\ call.observed.sources = sources
    /\ \E l \in Lists \ {_sources} : (heap[l] = << >>) # (sources = << >>)

C14_GuardNotSticky ==
    [][ /\ (IsSetSourcesStep /\ refused /\ ~ContainsUnsupported(Candidate)
              /\ ~SomeReady(sources))
               => (call'.result = "ok" /\ heap'[_sources'] = Candidate)
        /\ (_sources' # _sources)
               => (IsSetSourcesStep /\ call'.result = "ok") ]_vars

\* A retry accepted after a refusal and the tear down of every source.
C14_Witness ==
    /\ call.op = "set_sources"
    /\ call.result = "ok"
    /\ refused
    /\ ready = {}
    /\ sources # << >>

\* The type of the first element of seq whose type is not supported.
OffendingType(seq) ==
    SourceType(seq[CHOOSE i \in DOMAIN seq :
                      /\ SourceType(seq[i]) \notin supported_source_types
                      /\ \A j \in 1..(i - 1) :
                             SourceType(seq[j]) \in supported_source_types])

\* C15 (as claimed): the IncompatibleSourceError names the type of the
\* first unsupported candidate and the handler's accepted set of types.
C15_ErrorNamesTypeAndAcceptedSet ==
    [][ (IsSetSourcesStep /\ call'.result = "IncompatibleSourceError")
            => call'.types = {OffendingType(Candidate)} \cup supported_source_types ]_vars

\* C15 (amended): the IncompatibleSourceError names the type of the first
\* unsupported candidate, in candidate order, and no other type.
C15_ErrorNamesFirstOffendingType ==
    [][ (IsSetSourcesStep /\ call'.result = "IncompatibleSourceError")
            => call'.types = {OffendingType(Candidate)} ]_vars

\* Two unsupported candidates of different types: the first one is named.
C15_Witness ==
    /\ call.op = "set_sources"
    /\ call.result = "IncompatibleSourceError"
    /\ heap[call.arg] = <<"s2", "s1">>
    /\ supported_source_types = {}
    /\ call.types = {"B"}
====
